---- MODULE Spec2Model ----
(***************************************************************************)
(* A model of the walnut path tracer: the pixel dispatcher of main.rs, the *)
(* sensor of sensor.rs, the shapes and closest-hit query of scene.rs and   *)
(* the path integrator of integrator.rs.                                   *)
(*                                                                         *)
(* Numbers.  The program computes in f32.  The model computes in exact     *)
(* rationals <<n, d>> (d > 0, lowest terms) over inputs chosen so that     *)
(* every square root taken is the root of a perfect square; the f32        *)
(* literals of the source (1e-6, 1e-3, 255.0) are the rationals they       *)
(* denote.                                                                 *)
(***************************************************************************)
EXTENDS Integers, Sequences, FiniteSets, TLC

(***************************************************************************)
(* Bounds of the model.                                                    *)
(***************************************************************************)
MaxPixels == 3
\* The most pixels of a sensor used on its own (room for 2 x 2).
MaxSensor == 4
MaxCores == 2
MaxSpp == 2
\* The samples of one render: width * height * spp.
MaxSamples == 6
\* The shapes of a scene.
MaxShapes == 3
\* PathIntegrator's max_bounce and russian_roulette.
MaxBounce == 4
MaxRoulette == 2

(***************************************************************************)
(* f32 arithmetic, as exact rationals.                                     *)
(***************************************************************************)
\* `let x = e; body`: e is evaluated once and body reads its value.  The operators
\* below bind their arguments with it, as a function binds its parameters.
Let(e, body(_)) == CHOOSE y \in {body(x) : x \in {e}} : TRUE

Abs(x) == IF x < 0 THEN -x ELSE x

Min(a, b) == IF a < b THEN a ELSE b

RECURSIVE GCD(_, _)
GCD(a, b) == IF b = 0 THEN a ELSE Let(a % b, LAMBDA m : GCD(b, m))

Rat(n, d) ==
    LET s == IF d < 0 THEN -1 ELSE 1
        g == GCD(Abs(n), Abs(d))
    IN  <<(s * n) \div g, (s * d) \div g>>

R(n) == <<n, 1>>

RAdd(a0, b0) ==
    Let(a0, LAMBDA a :
    Let(b0, LAMBDA b :
        LET g == GCD(a[2], b[2])
        IN  Rat(a[1] * (b[2] \div g) + b[1] * (a[2] \div g), (a[2] \div g) * b[2])))

RNeg(a0) ==
    Let(a0, LAMBDA a :
        <<-a[1], a[2]>>)

RSub(a, b) == RAdd(a, RNeg(b))

RMul(a0, b0) ==
    Let(a0, LAMBDA a :
    Let(b0, LAMBDA b :
        LET g1 == GCD(Abs(a[1]), b[2])
            g2 == GCD(Abs(b[1]), a[2])
        IN  Rat((a[1] \div g1) * (b[1] \div g2), (a[2] \div g2) * (b[2] \div g1))))

RInv(a0) ==
    Let(a0, LAMBDA a :
        Rat(a[2], a[1]))

RDiv(a, b) == RMul(a, RInv(b))

RLt(a0, b0) ==
    Let(a0, LAMBDA a :
    Let(b0, LAMBDA b :
        LET g == GCD(a[2], b[2])
        IN  a[1] * (b[2] \div g) < b[1] * (a[2] \div g)))

RLe(a, b) == ~RLt(b, a)

\* f32::sqrt.  The model takes roots of squares of rationals only, where the
\* root is exact; RSqrt is left undefined elsewhere, so that TLC stops
\* should an input ever lead outside the squares.
ISqrt(n) == CHOOSE r \in 0..n : r * r <= n /\ (r + 1) * (r + 1) > n

IsSquare(a0) ==
    Let(a0, LAMBDA a :
        a[1] >= 0 /\ ISqrt(a[1]) * ISqrt(a[1]) = a[1] /\ ISqrt(a[2]) * ISqrt(a[2]) = a[2])

RSqrt(a0) ==
    Let(a0, LAMBDA a :
        CHOOSE r \in {Rat(ISqrt(a[1]), ISqrt(a[2]))} : IsSquare(a))

RGt(a, b) == RLt(b, a)

RMax(a0, b0) ==
    Let(a0, LAMBDA a :
    Let(b0, LAMBDA b :
        IF RLt(a, b) THEN b ELSE a))

(***************************************************************************)
(* sensor.rs: Color.                                                       *)
(***************************************************************************)
Color(r, g, b) == <<r, g, b>>

Black == Color(R(0), R(0), R(0))

ColorAdd(a0, b0) ==
    Let(a0, LAMBDA a :
    Let(b0, LAMBDA b :
        Color(RAdd(a[1], b[1]), RAdd(a[2], b[2]), RAdd(a[3], b[3]))))

ColorScale(f0, c0) ==
    Let(f0, LAMBDA f :
    Let(c0, LAMBDA c :
        Color(RMul(f, c[1]), RMul(f, c[2]), RMul(f, c[3]))))

ColorMul(a0, b0) ==
    Let(a0, LAMBDA a :
    Let(b0, LAMBDA b :
        Color(RMul(a[1], b[1]), RMul(a[2], b[2]), RMul(a[3], b[3]))))

\* A cast that would keep the low eight bits of the truncated value.
ToByteWrapping(x) == (RMul(x, R(255))[1] \div RMul(x, R(255))[2]) % 256

\* `(x * 255.) as u8`: the float-to-integer cast truncates toward zero and
\* saturates at the ends of u8.
ToByte(x) ==
    LET v == RMul(x, R(255))
    IN  IF v[1] <= 0 THEN 0
        ELSE IF v[1] \div v[2] > 255 THEN 255
        ELSE v[1] \div v[2]

to_bytes(c) == <<ToByte(c[1]), ToByte(c[2]), ToByte(c[3])>>

(***************************************************************************)
(* sensor.rs: Sensor.                                                      *)
(***************************************************************************)
\* The positions of a sensor filled column by column.
SensorPositionsByColumn(w, h) == [k \in 1..(w * h) |-> <<(k - 1) \div h, (k - 1) % h>>]

\* Sensor::constant pushes the pixels row by row: position (i, j) is the
\* element of index j * width + i (1-based here: + 1).
SensorPositions(w, h) == [k \in 1..(w * h) |-> <<(k - 1) % w, (k - 1) \div w>>]

\* sensor.rs:243-245
inside_or_on(w, h, i, j) == i <= w /\ j <= h

inside(w, h, i, j) == i < w /\ j < h

(***************************************************************************)
(* math.rs: points and vectors.                                            *)
(***************************************************************************)
Vec(x, y, z) == <<R(x), R(y), R(z)>>

VAdd(a0, b0) ==
    Let(a0, LAMBDA a :
    Let(b0, LAMBDA b :
        <<RAdd(a[1], b[1]), RAdd(a[2], b[2]), RAdd(a[3], b[3])>>))

VSub(a0, b0) ==
    Let(a0, LAMBDA a :
    Let(b0, LAMBDA b :
        <<RSub(a[1], b[1]), RSub(a[2], b[2]), RSub(a[3], b[3])>>))

VScale(f0, v0) ==
    Let(f0, LAMBDA f :
    Let(v0, LAMBDA v :
        <<RMul(f, v[1]), RMul(f, v[2]), RMul(f, v[3])>>))

VNeg(v0) ==
    Let(v0, LAMBDA v :
        <<RNeg(v[1]), RNeg(v[2]), RNeg(v[3])>>)

dot(a0, b0) ==
    Let(a0, LAMBDA a :
    Let(b0, LAMBDA b :
        RAdd(RAdd(RMul(a[1], b[1]), RMul(a[2], b[2])), RMul(a[3], b[3]))))

norm2(a0) ==
    Let(a0, LAMBDA a :
        dot(a, a))

normalize(v0) ==
    Let(v0, LAMBDA v :
    Let(RSqrt(RAdd(RAdd(RMul(v[1], v[1]), RMul(v[2], v[2])), RMul(v[3], v[3]))),
        LAMBDA length :
            <<RDiv(v[1], length), RDiv(v[2], length), RDiv(v[3], length)>>))

(***************************************************************************)
(* material.rs: the materials, as far as a hit refers to them.             *)
(***************************************************************************)
DiffuseMaterial(albedo) ==
    [kind |-> "diffuse", albedo |-> albedo, specular |-> Black, exponent |-> 0]

PhongMaterial(albedo, specular, exponent) ==
    [kind |-> "phong", albedo |-> albedo, specular |-> specular, exponent |-> exponent]

BlackBody == [kind |-> "black", albedo |-> Black, specular |-> Black, exponent |-> 0]

(***************************************************************************)
(* scene.rs: shapes and the closest-hit query.                             *)
(***************************************************************************)
Sphere(center, radius, material) ==
    [kind |-> "sphere", center |-> center, radius |-> radius,
     normal |-> Vec(0, 0, 0), material |-> material]

InfinitePlane(center, normal, material) ==
    [kind |-> "plane", center |-> center, radius |-> R(0),
     normal |-> normal, material |-> material]

Ray(origin, direction) == [origin |-> origin, direction |-> direction]

\* Option<SurfaceInteraction>: <<>> is None, <<si>> is Some(si).
None == <<>>

Some(x) == <<x>>

(***************************************************************************)
(* sensor.rs: the sensor's pixels and the pinhole camera.                  *)
(***************************************************************************)
\* Pixel { position, color }: the pixels of a sensor whose accumulators hold
\* colors, in the order Sensor::constant pushed them.
Pixels(w, h, colors) ==
    [k \in DOMAIN colors |-> [position |-> SensorPositions(w, h)[k], color |-> colors[k]]]

\* slice::get(index), with the 0-based index of the code.
SliceGet(px, index) == IF index < Len(px) THEN Some(px[index + 1]) ELSE None

\* sensor.rs:228-233
get(w, h, colors, i, j) ==
    IF ~inside(w, h, i, j) THEN None
    ELSE SliceGet(Pixels(w, h, colors), j * w + i)

\* sensor.rs:221-226
get_mut(w, h, colors, i, j) ==
    IF ~inside(w, h, i, j) THEN None
    ELSE SliceGet(Pixels(w, h, colors), j * w + i)

\* sensor.rs:247-249
aspect(w, h) == Rat(w, h)

\* f32::tan(self.fov / 2.0), for a camera of 90 degrees.
TanHalfFov == R(1)

\* The direction of sample_ray before it is normalized.
RayThrough(w, h, i, j, jitter_u, jitter_v) ==
    Let(RDiv(RAdd(R(i), jitter_u), R(w + 1)), LAMBDA u0 :
    Let(RDiv(RAdd(R(j), jitter_v), R(h + 1)), LAMBDA v0 :
    Let(RMul(RMul(RSub(RMul(R(2), u0), R(1)), aspect(w, h)), TanHalfFov), LAMBDA u :
    Let(RMul(RSub(R(1), RMul(R(2), v0)), TanHalfFov), LAMBDA v :
        <<u, v, R(-1)>>))))

\* sensor.rs:71-102
sample_ray(w, h, i, j, jitter_u, jitter_v) ==
    IF ~inside(w, h, i, j) THEN None
    ELSE Some(Ray(Vec(0, 0, 0), normalize(RayThrough(w, h, i, j, jitter_u, jitter_v))))

\* main.rs:163-167: one element of 0..spp through filter_map and map.  The
\* integrator is called for the ray only, and radiance is what it returns.
SampledAlways(w, h, i, j, jitter_u, jitter_v, radiance) == Some(radiance)

Sampled(w, h, i, j, jitter_u, jitter_v, radiance) ==
    IF sample_ray(w, h, i, j, jitter_u, jitter_v) = None THEN None ELSE Some(radiance)

\* The pairs (jitter_u, jitter_v) that rng.gen() may return, and for each
\* pixel those of them whose ray has a rational length.
JitterPairs ==
    { <<R(0), R(0)>>, <<Rat(1, 4), Rat(1, 3)>>, <<Rat(3, 4), Rat(1, 3)>>,
      <<R(0), Rat(1, 4)>>, <<Rat(1, 4), Rat(2, 3)>>, <<Rat(1, 3), Rat(1, 4)>>,
      <<Rat(1, 3), Rat(3, 4)>>, <<R(0), Rat(1, 3)>>, <<R(0), Rat(2, 3)>>,
      <<R(0), Rat(3, 4)>>, <<Rat(1, 4), Rat(2, 5)>>, <<Rat(1, 4), Rat(3, 4)>>,
      <<Rat(3, 4), R(0)>>, <<R(0), Rat(1, 5)>>, <<Rat(1, 5), Rat(1, 4)>>,
      <<Rat(1, 5), Rat(3, 4)>>, <<Rat(1, 3), Rat(4, 5)>>, <<Rat(1, 2), Rat(1, 4)>>,
      <<Rat(3, 5), Rat(3, 5)>>, <<Rat(3, 4), Rat(3, 4)>> }

JitterTable ==
    {draw \in {<<w, h, i, j, jitter>> : w \in 1..MaxSensor, h \in 1..MaxSensor,
                                        i \in 0..MaxSensor, j \in 0..MaxSensor,
                                        jitter \in JitterPairs} :
        /\ draw[1] * draw[2] <= MaxSensor
        /\ inside(draw[1], draw[2], draw[3], draw[4])
        /\ IsSquare(norm2(RayThrough(draw[1], draw[2], draw[3], draw[4],
                                     draw[5][1], draw[5][2])))}

JitterDraws(w, h, i, j) ==
    {draw[5] : draw \in {d \in JitterTable : <<d[1], d[2], d[3], d[4]>> = <<w, h, i, j>>}}

\* The literal -1e-6 of InfinitePlane::intersect.
MinusEps == Rat(-1, 1000000)

\* The other root of the quadratic, where the ray leaves the sphere.
FartherRoot(b, discriminant) == RAdd(RNeg(b), RSqrt(discriminant))

\* scene.rs:105: -dot(u, o - c) - f32::sqrt(discriminant)
NearerRoot(b, discriminant) == RSub(RNeg(b), RSqrt(discriminant))

\* scene.rs:92-122
SphereIntersect(self, r0) ==
    Let(r0.origin, LAMBDA o :
    Let(normalize(r0.direction), LAMBDA u :
    Let(self.center, LAMBDA c :
    Let(self.radius, LAMBDA r :
    Let(dot(u, VSub(o, c)), LAMBDA b :
    Let(RSub(RMul(b, b), RSub(norm2(VSub(o, c)), RMul(r, r))), LAMBDA discriminant :
        IF RLt(discriminant, R(0)) THEN None
        ELSE Let(NearerRoot(b, discriminant), LAMBDA t :
            IF RLt(t, R(0)) THEN None
            ELSE Let(VAdd(o, VScale(t, u)), LAMBDA intersection :
                Some([position |-> intersection,
                      normal |-> normalize(VSub(intersection, c)),
                      t |-> t,
                      wi |-> VNeg(u),
                      material |-> self.material,
                      emitter |-> None])))))))))

\* scene.rs:124-153
PlaneRejectsAtThreshold(denom) == RLe(MinusEps, denom)

PlaneRejects(denom) == RGt(denom, MinusEps)

PlaneIntersect(self, r0) ==
    Let(r0.origin, LAMBDA o :
    Let(normalize(r0.direction), LAMBDA u :
    Let(self.normal, LAMBDA n :
    Let(self.center, LAMBDA c :
    Let(dot(u, n), LAMBDA denom :
        IF PlaneRejects(denom) THEN None
        ELSE Let(RDiv(dot(VSub(c, o), n), denom), LAMBDA t :
            IF RLt(t, R(0)) THEN None
            ELSE Let(VAdd(o, VScale(t, u)), LAMBDA intersection :
                Some([position |-> intersection,
                      normal |-> n,
                      t |-> t,
                      wi |-> VNeg(u),
                      material |-> self.material,
                      emitter |-> None]))))))))

\* Shape::intersect, dispatched on the shape's type.
intersect(shape, r0) ==
    IF shape.kind = "sphere" THEN SphereIntersect(shape, r0)
    ELSE PlaneIntersect(shape, r0)

\* filter_map(|shape| shape.intersect(&ray)): the hits, in the shapes' order.
RECURSIVE FilterMapIntersect(_, _)
FilterMapIntersect(list, r) ==
    IF list = <<>> THEN <<>>
    ELSE intersect(Head(list), r) \o FilterMapIntersect(Tail(list), r)

\* Iterator::min_by folds with `match compare(&a, &b) { Greater => b, _ => a }`,
\* compare being a.t.partial_cmp(&b.t).
MinByTLastWins(a, b) == IF RLt(a.t, b.t) THEN a ELSE b

MinByT(a, b) == IF RGt(a.t, b.t) THEN b ELSE a

RECURSIVE FoldMinBy(_, _)
FoldMinBy(acc, rest) ==
    IF rest = <<>> THEN acc ELSE FoldMinBy(MinByT(acc, Head(rest)), Tail(rest))

\* scene.rs:38-53
closest_hit(list, r) ==
    Let(FilterMapIntersect(list, r), LAMBDA hits :
        IF hits = <<>> THEN None
        ELSE Let(FoldMinBy(Head(hits), Tail(hits)), LAMBDA closest :
            Some([position |-> closest.position,
                  normal |-> closest.normal,
                  t |-> closest.t,
                  wi |-> closest.wi,
                  material |-> closest.material,
                  emitter |-> None])))

(***************************************************************************)
(* math.rs, scene.rs, material.rs, emitter.rs: what the integrator calls.  *)
(***************************************************************************)
cross(a0, b0) ==
    Let(a0, LAMBDA a :
    Let(b0, LAMBDA b :
        <<RSub(RMul(a[2], b[3]), RMul(a[3], b[2])),
          RSub(RMul(a[3], b[1]), RMul(a[1], b[3])),
          RSub(RMul(a[1], b[2]), RMul(a[2], b[1]))>>))

reflect(a0, n0) ==
    Let(a0, LAMBDA a :
    Let(n0, LAMBDA n :
        VSub(a, VScale(RMul(R(2), dot(a, n)), n))))

\* scene.rs:155-175
local_frame(si) ==
    Let(si.normal, LAMBDA w :
    Let(IF RGt(Rat(Abs(w[1][1]), w[1][2]), Rat(1, 10)) THEN Vec(0, 1, 0) ELSE Vec(1, 0, 0),
        LAMBDA axis :
    Let(normalize(cross(axis, w)), LAMBDA u :
        <<u, cross(w, u), w>>)))

\* std::f32::consts::PI, as a rational.
PI == Rat(22, 7)

\* cos(2 pi e) and sin(2 pi e) at the quarter turns, the only angles drawn.
CosTurn(e) ==
    CASE e = R(0) -> R(1) [] e = Rat(1, 4) -> R(0) [] e = Rat(1, 2) -> R(-1) [] e = Rat(3, 4) -> R(0)

SinTurn(e) ==
    CASE e = R(0) -> R(0) [] e = Rat(1, 4) -> R(1) [] e = Rat(1, 2) -> R(0) [] e = Rat(3, 4) -> R(-1)

\* material.rs:11-22
uniform_hemisphere_sample(si, e1, e2) ==
    Let(local_frame(si), LAMBDA f :
    Let(RSqrt(RSub(R(1), RMul(e1, e1))), LAMBDA r :
        VAdd(VAdd(VScale(RMul(CosTurn(e2), r), f[1]), VScale(RMul(SinTurn(e2), r), f[2])),
             VScale(e1, f[3]))))

\* material.rs:24-35
cosine_weighted_hemisphere_sample(si, e1, e2) ==
    Let(local_frame(si), LAMBDA f :
    Let(RSqrt(e1), LAMBDA r :
        VAdd(VAdd(VScale(RMul(CosTurn(e2), r), f[1]), VScale(RMul(SinTurn(e2), r), f[2])),
             VScale(RSqrt(RMax(R(0), RSub(R(1), e1))), f[3]))))

\* f32::powf with the integral exponents the materials carry.
RECURSIVE IPow(_, _)
IPow(n, k) == IF k = 0 THEN 1 ELSE n * IPow(n, k - 1)

RPow(a, k) == <<IPow(a[1], k), IPow(a[2], k)>>

\* Material::bsdf_pdf: material.rs:68-70, 94-96, 115-117
bsdf_pdf(m, si, wo) ==
    IF m.kind = "phong" THEN RDiv(R(1), RMul(R(2), PI))
    ELSE RDiv(dot(si.normal, wo), PI)

\* Material::bsdf_eval: material.rs:57-62, 78-88, 104-109
bsdf_eval(m, si, wo) ==
    Let(RMul(RDiv(R(1), PI), RMax(dot(si.normal, wo), R(0))), LAMBDA cosine :
        [radiance |->
            CASE m.kind = "black" -> Black
              [] m.kind = "diffuse" -> ColorScale(cosine, m.albedo)
              [] m.kind = "phong" ->
                    ColorAdd(ColorScale(cosine, m.albedo),
                             ColorScale(RPow(RMax(dot(VNeg(reflect(si.wi, si.normal)), wo), R(0)),
                                             m.exponent),
                                        m.specular)),
         pdf |-> bsdf_pdf(m, si, wo)])

\* Material::bsdf_sample: material.rs:64-66, 90-92, 111-113
bsdf_sample(m, si, e1, e2) ==
    IF m.kind = "phong" THEN uniform_hemisphere_sample(si, e1, e2)
    ELSE cosine_weighted_hemisphere_sample(si, e1, e2)

\* emitter.rs:29-43
PointLight(position, intensity) == [position |-> position, intensity |-> intensity]

\* emitter.rs:19-27
EmitterSample(light) ==
    [radiance |-> light.intensity, position |-> light.position, weight |-> R(1)]

\* The literal 1e-3 by which the integrator moves a ray's origin off the
\* surface.
OriginEps == Rat(1, 1000)

VARIABLES
    shapes,         \* Scene.shapes
    ray,            \* the ray of the query
    found,          \* shape index -> what intersect returned for it
    hit,            \* what closest_hit returned
    queried         \* whether the query was made

sceneVars == <<shapes, ray, found, hit, queried>>

VARIABLES
    lights,             \* Scene.lights
    background_color,   \* Scene.background_color
    max_bounce,         \* PathIntegrator.max_bounce
    russian_roulette,   \* PathIntegrator.russian_roulette
    pathPc,             \* sample_radiance's position
    bounce,             \* the loop variable of sample_radiance
    throughput,
    color,
    si,                 \* the hit of this bounce: <<>> or <<interaction>>
    light,              \* direct lighting: lights visited at this hit
    le,                 \* direct lighting: the sum over the lights visited
    history             \* history: what each step of the path did

pathVars == <<lights, background_color, max_bounce, russian_roulette, pathPc,
              bounce, throughput, color, si, light, le, history>>

(***************************************************************************)
(* main.rs: the dispatcher.                                                *)
(***************************************************************************)
VARIABLES
    width, height,  \* the sensor's dimensions
    spp,            \* samples per pixel
    num_cores,      \* thread::available_parallelism(), or 4
    pixels,         \* Sensor.pixels: pixel index -> the pixel's color
    lock,           \* pixel index -> Free or <<"w", worker>>
    chunks,         \* the chunks of pixel indices main iterates over
    mainPc,         \* main's position
    next,           \* main: chunks spawned so far; then pixels read out
    wk,             \* worker -> [pc, k, s, accum]; accum is <<>> or <<sum>>
    bytes,          \* the buffer readout builds
    saved,          \* the byte-sink's result
    estimates,      \* history: pixel index -> the radiances returned for it
    writes,         \* history: pixel index -> stores into its accumulator
    lockers         \* history: pixel index -> workers that locked it

dispatchVars == <<width, height, spp, num_cores, pixels, lock, chunks, mainPc,
                  next, wk, bytes, saved, estimates, writes, lockers>>

\* A caller of the sensor and of the camera.
VARIABLES
    asked,          \* the last call: [op, i, j]
    answer          \* what it returned

sensorVars == <<asked, answer>>

vars == <<dispatchVars, sceneVars, pathVars, sensorVars>>

\* What integrator.sample_radiance may return to the dispatcher: it depends
\* on the thread-local random draws.
Radiances == {Color(R(1), Rat(1, 2), R(0)), Color(R(3), R(0), Rat(1, 4))}

NPixels == width * height

\* No query is being made.
SceneIdle ==
    /\ shapes = <<>>
    /\ ray = Ray(Vec(0, 0, 0), Vec(0, 0, -1))
    /\ found = <<>>
    /\ hit = None
    /\ queried = FALSE

\* No call has been made.
SensorIdle ==
    /\ asked = [op |-> "none", i |-> 0, j |-> 0]
    /\ answer = None

\* sample_radiance is not running.
PathIdle ==
    /\ lights = <<>>
    /\ background_color = Color(Rat(1, 5), Rat(1, 5), Rat(1, 5))
    /\ max_bounce = 0
    /\ russian_roulette = 0
    /\ pathPc = "off"
    /\ bounce = 0
    /\ throughput = Color(R(1), R(1), R(1))
    /\ color = Black
    /\ si = None
    /\ light = 0
    /\ le = Black
    /\ history = <<>>

\* slice::chunks(n): consecutive, non-overlapping runs of n elements, the
\* last one holding the remainder.
ChunksOverlapping(len, n) ==
    [c \in 1..((len + n - 1) \div n) |->
        [x \in 1..Min(n + 1, len - (c - 1) * n) |-> (c - 1) * n + x]]

ChunksOf(len, n) ==
    [c \in 1..((len + n - 1) \div n) |->
        [x \in 1..Min(n, len - (c - 1) * n) |-> (c - 1) * n + x]]

Free == <<"free", 0>>

\* A reduction that would start from black, as a fold does.
PendingFromBlack == [pc |-> "idle", k |-> 1, s |-> 0, accum |-> <<Black>>]

Pending == [pc |-> "idle", k |-> 1, s |-> 0, accum |-> <<>>]

Init ==
    /\ width \in 1..MaxPixels
    /\ height \in 1..MaxPixels
    /\ width * height <= MaxPixels
    /\ spp \in 0..MaxSpp
    /\ width * height * spp <= MaxSamples
    /\ num_cores \in 1..MaxCores
    /\ pixels = [p \in 1..(width * height) |-> Black]
    /\ lock = [p \in 1..(width * height) |-> Free]
    /\ chunks = <<>>
    /\ mainPc = "start"
    /\ next = 0
    /\ wk = <<>>
    /\ bytes = <<>>
    /\ saved = "None"
    /\ estimates = [p \in 1..(width * height) |-> <<>>]
    /\ writes = [p \in 1..(width * height) |-> 0]
    /\ lockers = [p \in 1..(width * height) |-> {}]
    /\ SceneIdle
    /\ PathIdle
    /\ SensorIdle

\* main.rs:151
MainChunks ==
    /\ mainPc = "start"
    /\ chunks' = ChunksOf(NPixels, num_cores)
    /\ wk' = [c \in 1..Len(chunks') |-> Pending]
    /\ mainPc' = "spawn"
    /\ UNCHANGED <<sceneVars, pathVars, sensorVars, width, height, spp, num_cores, pixels, lock, next, bytes,
                   saved, estimates, writes, lockers>>

\* main.rs:155-159: one iteration of `for chunk in chunks`
MainSpawn ==
    /\ mainPc = "spawn"
    /\ next < Len(chunks)
    /\ wk' = [wk EXCEPT ![next + 1].pc = "sample"]
    /\ next' = next + 1
    /\ UNCHANGED <<sceneVars, pathVars, sensorVars, width, height, spp, num_cores, pixels, lock, chunks, mainPc,
                   bytes, saved, estimates, writes, lockers>>

\* The end of thread::scope: it returns once every spawned thread has ended.
AllJoinedNoWait == TRUE

AllJoined == \A w \in DOMAIN wk : wk[w].pc = "done"

MainJoin ==
    /\ mainPc = "spawn"
    /\ next = Len(chunks)
    /\ AllJoined
    /\ mainPc' = "readout"
    /\ next' = 0
    /\ UNCHANGED <<sceneVars, pathVars, sensorVars, width, height, spp, num_cores, pixels, lock, chunks, wk,
                   bytes, saved, estimates, writes, lockers>>

\* sensor.rs:200-209: readout maps each pixel, in order, to its three bytes,
\* under the pixel's read lock.
MainReadout ==
    /\ mainPc = "readout"
    /\ next < NPixels
    /\ lock[next + 1] = Free
    /\ bytes' = bytes \o to_bytes(pixels[next + 1])
    /\ next' = next + 1
    /\ UNCHANGED <<sceneVars, pathVars, sensorVars, width, height, spp, num_cores, pixels, lock, chunks, mainPc,
                   wk, saved, estimates, writes, lockers>>

\* sensor.rs:211-219 and main.rs:179-182: the sink's result, and expect().
MainSave ==
    /\ mainPc = "readout"
    /\ next = NPixels
    /\ \E res \in {"Ok", "Err"} :
        /\ saved' = res
        /\ mainPc' = IF res = "Ok" THEN "done" ELSE "panicked"
    /\ UNCHANGED <<sceneVars, pathVars, sensorVars, width, height, spp, num_cores, pixels, lock, chunks, next,
                   wk, bytes, estimates, writes, lockers>>

PixelOf(w) == chunks[w][wk[w].k]

PositionOf(p) == SensorPositions(width, height)[p]

\* main.rs:163-167: one element of 0..spp through filter_map, map and reduce.
WorkerSample(w) ==
    /\ wk[w].pc = "sample"
    /\ wk[w].s < spp
    /\ LET p == PixelOf(w)
           ij == PositionOf(p)
       IN  \E jitter \in JitterDraws(width, height, ij[1], ij[2]), radiance \in Radiances :
           IF Sampled(width, height, ij[1], ij[2], jitter[1], jitter[2], radiance) = None
           THEN /\ wk' = [wk EXCEPT ![w].s = @ + 1]
                /\ UNCHANGED estimates
           ELSE /\ wk' = [wk EXCEPT ![w].s = @ + 1,
                                    ![w].accum = IF @ = <<>> THEN <<radiance>>
                                                 ELSE <<ColorAdd(@[1], radiance)>>]
                /\ estimates' = [estimates EXCEPT ![p] =
                                    Append(@, [at |-> ij, radiance |-> radiance])]
    /\ UNCHANGED <<sceneVars, pathVars, sensorVars, width, height, spp, num_cores, pixels, lock, chunks, mainPc,
                   next, bytes, saved, writes, lockers>>

\* The worker's position after the body of `for pixel in chunk`.
Advance(w) ==
    IF wk[w].k < Len(chunks[w])
    THEN [pc |-> "sample", k |-> wk[w].k + 1, s |-> 0, accum |-> <<>>]
    ELSE [pc |-> "done", k |-> wk[w].k, s |-> 0, accum |-> <<>>]

\* main.rs:167-169: the iterator is exhausted; `if let Some(radiance)`.
WorkerReduced(w) ==
    /\ wk[w].pc = "sample"
    /\ wk[w].s = spp
    /\ wk' = [wk EXCEPT ![w] = IF wk[w].accum = <<>> THEN Advance(w)
                                ELSE [@ EXCEPT !.pc = "lock"]]
    /\ UNCHANGED <<sceneVars, pathVars, sensorVars, width, height, spp, num_cores, pixels, lock, chunks, mainPc,
                   next, bytes, saved, estimates, writes, lockers>>

\* main.rs:171: pixel.color.write() takes the pixel's lock for writing.
WorkerLock(w) ==
    /\ wk[w].pc = "lock"
    /\ lock[PixelOf(w)] = Free
    /\ lock' = [lock EXCEPT ![PixelOf(w)] = <<"w", w>>]
    /\ lockers' = [lockers EXCEPT ![PixelOf(w)] = @ \cup {w}]
    /\ wk' = [wk EXCEPT ![w].pc = "store"]
    /\ UNCHANGED <<sceneVars, pathVars, sensorVars, width, height, spp, num_cores, pixels, chunks, mainPc, next,
                   bytes, saved, estimates, writes>>

\* main.rs:170-171: the value stored, f * radiance with f = 1.0 / spp.
AverageUnscaled(n, radiance) == radiance

Average(n, radiance) == ColorScale(Rat(1, n), radiance)

\* main.rs:171: the store, and the guard's drop at the end of the statement.
WorkerStore(w) ==
    /\ wk[w].pc = "store"
    /\ pixels' = [pixels EXCEPT ![PixelOf(w)] = Average(spp, wk[w].accum[1])]
    /\ writes' = [writes EXCEPT ![PixelOf(w)] = @ + 1]
    /\ lock' = [lock EXCEPT ![PixelOf(w)] = Free]
    /\ wk' = [wk EXCEPT ![w] = Advance(w)]
    /\ UNCHANGED <<sceneVars, pathVars, sensorVars, width, height, spp, num_cores, chunks, mainPc, next, bytes,
                   saved, estimates, lockers>>

Next ==
    \/ MainChunks
    \/ MainSpawn
    \/ MainJoin
    \/ MainReadout
    \/ MainSave
    \/ \E w \in DOMAIN wk : WorkerSample(w)
    \/ \E w \in DOMAIN wk : WorkerReduced(w)
    \/ \E w \in DOMAIN wk : WorkerLock(w)
    \/ \E w \in DOMAIN wk : WorkerStore(w)

Spec == Init /\ [][Next]_vars

(***************************************************************************)
(* Claims about the dispatcher.                                            *)
(***************************************************************************)
Rendered == mainPc \in {"readout", "done", "panicked"}

Spawned == {w \in DOMAIN wk : wk[w].pc # "idle"}

\* C1: once every chunk has been handed to a thread, the pixel list was cut
\* into num_cores chunks and exactly num_cores workers were spawned.
C1_WChunksWWorkers ==
    Rendered => Len(chunks) = num_cores /\ Cardinality(Spawned) = num_cores

\* The places <<c, x>> of the chunks that hold pixel p.
PlacesOf(p) ==
    {cx \in {<<c, x>> : c \in DOMAIN chunks, x \in 1..MaxPixels + MaxCores} :
        cx[2] \in DOMAIN chunks[cx[1]] /\ chunks[cx[1]][cx[2]] = p}

\* C2: every pixel is in the chunk of exactly one worker (the chunks are
\* pairwise disjoint and cover the pixel list), and only that worker ever
\* holds, or has held, the pixel's lock.
C2_OneOwnerPerPixel ==
    mainPc # "start" =>
        \A p \in 1..NPixels :
            /\ Cardinality(PlacesOf(p)) = 1
            /\ \A w \in lockers[p] : \E cx \in PlacesOf(p) : cx[1] = w
            /\ Cardinality(lockers[p]) <= 1
            /\ lock[p] = Free \/ lock[p][2] \in lockers[p]

\* Two workers hold the locks of their own pixels at the same time.
C2_Witness ==
    \E p, q \in 1..NPixels :
        /\ lock[p] # Free
        /\ lock[q] # Free
        /\ lock[p] # lock[q]

\* C3: when readout has read a pixel, every worker has ended, so no store
\* into an accumulator is still to come.
C3_ReadoutAfterJoin ==
    bytes # <<>> => \A w \in DOMAIN wk : wk[w].pc \notin {"idle", "sample", "lock", "store"}

\* readout has read pixels that several workers wrote.
C3_Witness ==
    /\ Len(bytes) = 3 * NPixels
    /\ Len(chunks) > 1
    /\ \A p \in 1..NPixels : writes[p] = 1

RECURSIVE SumRadiance(_)
SumRadiance(es) ==
    IF Len(es) = 1 THEN es[1].radiance
    ELSE ColorAdd(SumRadiance(SubSeq(es, 1, Len(es) - 1)), es[Len(es)].radiance)

\* C4: after a render with spp >= 1 every accumulator was stored exactly
\* once and holds (1/spp) times the sum of the spp radiances returned for
\* rays sampled at the pixel's own position, whatever the interleaving.
C4_PixelIsAverage ==
    (Rendered /\ spp >= 1) =>
        \A p \in 1..NPixels :
            /\ writes[p] = 1
            /\ Len(estimates[p]) = spp
            /\ \A e \in 1..spp : estimates[p][e].at = SensorPositions(width, height)[p]
            /\ pixels[p] = ColorScale(Rat(1, spp), SumRadiance(estimates[p]))

\* A render of several pixels by several workers with spp = 2 has ended
\* with different samples for one pixel.
C4_Witness ==
    /\ mainPc = "done"
    /\ spp = 2
    /\ Len(chunks) > 1
    /\ \E p \in 1..NPixels : estimates[p][1].radiance # estimates[p][2].radiance

(***************************************************************************)
(* The closest-hit query on its own: a scene is built with add_shape and   *)
(* queried once with a ray.                                                *)
(***************************************************************************)
Grey == Color(Rat(1, 2), Rat(1, 2), Rat(1, 2))

Red == Color(Rat(4, 5), R(0), R(0))

White == Color(R(1), R(1), R(1))

\* The sphere of the test it_intersects, a sphere through the camera's
\* position, and a small sphere whose near side is as far from (0,-1,0) as
\* that of the first.
SphereA == Sphere(Vec(0, 5, 0), R(3), DiffuseMaterial(Grey))

SphereB == Sphere(Vec(0, 0, -1), R(1), PhongMaterial(Red, White, 10))

SphereF == Sphere(Vec(0, 3, 0), R(1), BlackBody)

\* A ceiling at y = 2, the ground plane through the origin, and a plane
\* through the origin whose normal, of length 1 in f32, leans by 1e-6.
PlaneC == InfinitePlane(Vec(0, 2, 0), Vec(0, -1, 0), DiffuseMaterial(Red))

PlaneD == InfinitePlane(Vec(0, 0, 0), Vec(0, 1, 0), DiffuseMaterial(White))

PlaneE == InfinitePlane(Vec(0, 0, 0), <<Rat(1, 1000000), R(1), R(0)>>, PhongMaterial(Grey, Grey, 25))

ShapePool == {SphereA, SphereB, SphereF, PlaneC, PlaneD, PlaneE}

Rays ==
    { Ray(Vec(0, -1, 0), Vec(0, 1, 0)),
      Ray(Vec(0, -1, 0), Vec(1, 0, 0)),
      Ray(Vec(0, -1, 0), Vec(0, 2, 0)),
      Ray(Vec(0, 0, 0), Vec(0, 0, -1)),
      Ray(Vec(0, 0, 0), Vec(0, -1, 0)),
      Ray(Vec(0, 1, 0), Vec(0, -1, 0)),
      Ray(Vec(0, 1, 0), Vec(0, -3, 4)),
      Ray(Vec(1, 0, 0), Vec(-1, 0, 0)),
      Ray(Vec(0, 8, 0), Vec(0, -1, 0)) }

\* main is not running.
DispatchIdle ==
    /\ width = 1
    /\ height = 1
    /\ spp = 0
    /\ num_cores = 1
    /\ pixels = <<Black>>
    /\ lock = <<Free>>
    /\ chunks = <<>>
    /\ mainPc = "off"
    /\ next = 0
    /\ wk = <<>>
    /\ bytes = <<>>
    /\ saved = "None"
    /\ estimates = <<<<>>>>
    /\ writes = <<0>>
    /\ lockers = <<{}>>

HitInit ==
    /\ DispatchIdle
    /\ SensorIdle
    /\ PathIdle
    /\ shapes = <<>>
    /\ ray \in Rays
    /\ found = <<>>
    /\ hit = None
    /\ queried = FALSE

\* scene.rs:63-65
add_shape(shape) ==
    /\ ~queried
    /\ Len(shapes) < MaxShapes
    /\ shapes' = Append(shapes, shape)
    /\ UNCHANGED <<dispatchVars, sensorVars, pathVars, ray, found, hit, queried>>

\* scene.rs:38-53, and what each shape's intersect returned in it.
Query ==
    /\ ~queried
    /\ found' = [k \in DOMAIN shapes |-> intersect(shapes[k], ray)]
    /\ hit' = closest_hit(shapes, ray)
    /\ queried' = TRUE
    /\ UNCHANGED <<dispatchVars, sensorVars, pathVars, shapes, ray>>

HitNext ==
    \/ \E shape \in ShapePool : add_shape(shape)
    \/ Query

SpecHit == HitInit /\ [][HitNext]_vars

\* Every square root the queries take is that of the square of a rational.
RootsExact ==
    \A k \in DOMAIN shapes :
        /\ IsSquare(norm2(ray.direction))
        /\ shapes[k].kind = "sphere" =>
            LET u == normalize(ray.direction)
                oc == VSub(ray.origin, shapes[k].center)
                d == RSub(RMul(dot(u, oc), dot(u, oc)),
                          RSub(norm2(oc), RMul(shapes[k].radius, shapes[k].radius)))
            IN  RLt(d, R(0)) \/ IsSquare(d)

(***************************************************************************)
(* Claims about the shapes and the closest-hit query.                      *)
(***************************************************************************)
Hits == {k \in DOMAIN found : found[k] # None}

\* C5: closest_hit returns nothing exactly when every shape misses, and
\* otherwise the hit of the first-added shape among those of smallest t.
C5_ClosestFirstAdded ==
    queried =>
        /\ hit = None <=> Hits = {}
        /\ hit # None =>
            \E k \in Hits :
                /\ hit = found[k]
                /\ \A j \in Hits : RLe(found[k][1].t, found[j][1].t)
                /\ \A j \in Hits : j < k => RLt(found[k][1].t, found[j][1].t)

\* Two shapes are hit at the same smallest t, and another hit is farther.
C5_Witness ==
    /\ queried
    /\ hit # None
    /\ \E j, k \in Hits : j < k /\ found[j][1].t = hit[1].t /\ found[k][1].t = hit[1].t
    /\ \E j \in Hits : RGt(found[j][1].t, hit[1].t)

\* C6: every interaction returned by intersect or closest_hit has t > 0.
C6_PositiveT ==
    queried =>
        /\ \A k \in Hits : RGt(found[k][1].t, R(0))
        /\ hit # None => RGt(hit[1].t, R(0))

Planes == {k \in DOMAIN found : shapes[k].kind = "plane"}

Denom(k) == dot(normalize(ray.direction), shapes[k].normal)

\* C7 as stated: a plane is hit only when denom < -1e-6.
C7_StrictThreshold ==
    queried => \A k \in Planes : found[k] # None => RLt(Denom(k), MinusEps)

\* C7: a plane is hit only when denom <= -1e-6 (every ray with
\* denom > -1e-6 misses), and a ray with denom <= -1e-6 whose origin is on
\* the side the normal points to hits.
C7_OneSided ==
    queried =>
        \A k \in Planes :
            /\ RGt(Denom(k), MinusEps) => found[k] = None
            /\ found[k] # None => RLe(Denom(k), MinusEps)
            /\ (RLe(Denom(k), MinusEps)
                    /\ RGt(dot(VSub(ray.origin, shapes[k].center), shapes[k].normal), R(0)))
                => found[k] # None

\* One plane is hit by a ray with denom = -1e-6 and another, to which the
\* ray is parallel, is missed.
C7_Witness ==
    /\ queried
    /\ \E k \in Planes : found[k] # None /\ Denom(k) = MinusEps
    /\ \E k \in Planes : found[k] = None /\ RGt(Denom(k), MinusEps)

(***************************************************************************)
(* integrator.rs: PathIntegrator::sample_radiance, one call of it.         *)
(*                                                                         *)
(* The random draws.  The roulette draws xi from RouletteDraws.  The       *)
(* hemisphere samplers draw e1 = 0 and e2 among the quarter turns: the     *)
(* cosine-weighted sampler then returns the normal itself and the uniform  *)
(* sampler a tangent, and with the scenes below every ray stays on a       *)
(* coordinate axis or a 3-4-5 direction.                                   *)
(***************************************************************************)
E1Draws == {R(0)}

E2Draws == {R(0), Rat(1, 4), Rat(1, 2), Rat(3, 4)}

RouletteDraws == {Rat(1, 8), Rat(3, 4)}

Backgrounds == {Color(Rat(1, 5), Rat(1, 5), Rat(1, 5)), Color(R(1), Rat(1, 2), R(0))}

\* A light straight above the origin, and one seen from (0,0,0) and from
\* (0,2,0) along a 3-4-5 direction.
LightAbove == PointLight(Vec(0, 6, 0), Color(Rat(4, 5), Rat(4, 5), Rat(4, 5)))

LightAside == PointLight(<<Rat(3, 4), R(1), R(0)>>, Color(R(1), R(0), Rat(1, 2)))

Ground == InfinitePlane(Vec(0, 0, 0), Vec(0, 1, 0), DiffuseMaterial(Grey))

GroundPhong == InfinitePlane(Vec(0, 0, 0), Vec(0, 1, 0), PhongMaterial(Red, White, 10))

Occluder == Sphere(Vec(0, 3, 0), R(1), DiffuseMaterial(Red))

OccluderBlack == Sphere(Vec(0, 3, 0), R(1), BlackBody)

\* The scenes: [shapes, lights].
PathScenes ==
    { <<<<>>, <<>>>>,
      <<<<>>, <<LightAbove>>>>,
      <<<<Ground>>, <<LightAbove, LightAside>>>>,
      <<<<Ground, Occluder>>, <<LightAbove, LightAside>>>>,
      <<<<Ground, Occluder>>, <<LightAside, LightAbove>>>>,
      <<<<OccluderBlack, Ground>>, <<LightAbove>>>>,
      <<<<GroundPhong>>, <<LightAside>>>> }

PathRays ==
    { Ray(Vec(0, 1, 0), Vec(0, -1, 0)),
      Ray(Vec(0, 1, 0), Vec(0, 2, 0)),
      Ray(Vec(0, 1, 0), Vec(1, 0, 0)) }

\* integrator.rs:25-33
PathInit ==
    /\ DispatchIdle
    /\ SensorIdle
    /\ \E scene \in PathScenes : shapes = scene[1] /\ lights = scene[2]
    /\ background_color \in Backgrounds
    /\ ray \in PathRays
    /\ found = <<>>
    /\ hit = None
    /\ queried = FALSE
    /\ max_bounce \in 0..MaxBounce
    /\ russian_roulette \in 0..MaxRoulette
    /\ pathPc = "loop"
    /\ bounce = 0
    /\ throughput = Color(R(1), R(1), R(1))
    /\ color = Black
    /\ si = None
    /\ light = 0
    /\ le = Black
    /\ history = <<>>

\* integrator.rs:35: `for bounce in 0..self.max_bounce` has a next element.
InRangeUnbounded(b, n) == TRUE

InRange(b, n) == b < n

\* integrator.rs:37: what a ray that leaves the scene adds to color.
EscapeUnlit(c, t, background) == c

Escape(c, t, background) == ColorAdd(c, ColorMul(t, background))

\* integrator.rs:35-43: the head of the loop, the closest-hit query and the
\* emitter of the surface hit.
PathHit ==
    /\ pathPc = "loop"
    /\ InRange(bounce, max_bounce)
    /\ si' = closest_hit(shapes, ray)
    /\ IF si' = None
       THEN /\ color' = Escape(color, throughput, background_color)
            /\ pathPc' = "returned"
            /\ history' = Append(history, [step |-> "escape", bounce |-> bounce,
                                           throughput |-> throughput, color |-> color'])
       ELSE /\ color' = IF si'[1].emitter # None
                        THEN ColorAdd(color, ColorMul(throughput,
                                                      EmitterSample(si'[1].emitter[1]).radiance))
                        ELSE color
            /\ pathPc' = "direct"
            /\ history' = Append(history, [step |-> "hit", bounce |-> bounce,
                                           throughput |-> throughput, color |-> color'])
    /\ light' = 0
    /\ le' = Black
    /\ UNCHANGED <<dispatchVars, sensorVars, sceneVars, lights, background_color, max_bounce,
                   russian_roulette, bounce, throughput>>

\* integrator.rs:35, 80: the loop has run max_bounce times.
PathExhausted ==
    /\ pathPc = "loop"
    /\ ~InRange(bounce, max_bounce)
    /\ pathPc' = "returned"
    /\ history' = Append(history, [step |-> "exhausted", bounce |-> bounce,
                                   throughput |-> throughput, color |-> color])
    /\ UNCHANGED <<dispatchVars, sensorVars, sceneVars, lights, background_color, max_bounce,
                   russian_roulette, bounce, throughput, color, si, light, le>>

\* integrator.rs:47-52: the shadow ray towards a light sample.
ShadowRay(at, light_sample) ==
    Let(normalize(VSub(light_sample.position, at.position)), LAMBDA wo :
        Ray(VAdd(at.position, VScale(OriginEps, wo)), wo))

\* integrator.rs:46-57: what one light adds to le.
LightTermUnshadowed(list, at, l) ==
    Let(EmitterSample(l), LAMBDA light_sample :
    Let(ShadowRay(at, light_sample), LAMBDA shadow :
        ColorMul(bsdf_eval(at.material, at, shadow.direction).radiance,
                 light_sample.radiance)))

LightTerm(list, at, l) ==
    Let(EmitterSample(l), LAMBDA light_sample :
    Let(ShadowRay(at, light_sample), LAMBDA shadow :
        IF closest_hit(list, shadow) # None THEN Black
        ELSE ColorMul(bsdf_eval(at.material, at, shadow.direction).radiance,
                      light_sample.radiance)))

\* integrator.rs:45-58: one iteration of `for light in scene.lights.iter()`.
PathLight ==
    /\ pathPc = "direct"
    /\ light < Len(lights)
    /\ le' = ColorAdd(le, LightTerm(shapes, si[1], lights[light + 1]))
    /\ light' = light + 1
    /\ history' = Append(history, [step |-> "light", bounce |-> bounce,
                                   throughput |-> throughput, color |-> color])
    /\ UNCHANGED <<dispatchVars, sensorVars, sceneVars, lights, background_color, max_bounce,
                   russian_roulette, pathPc, bounce, throughput, color, si>>

\* A direct term that would not be weighted by the throughput.
DirectTermUnweighted(t, l) == l

\* integrator.rs:60: throughput * le
DirectTerm(t, l) == ColorMul(t, l)

\* integrator.rs:60
PathDirect ==
    /\ pathPc = "direct"
    /\ light = Len(lights)
    /\ color' = ColorAdd(color, DirectTerm(throughput, le))
    /\ pathPc' = "indirect"
    /\ history' = Append(history, [step |-> "direct", bounce |-> bounce,
                                   throughput |-> throughput, color |-> color'])
    /\ UNCHANGED <<dispatchVars, sensorVars, sceneVars, lights, background_color, max_bounce,
                   russian_roulette, bounce, throughput, si, light, le>>

\* integrator.rs:63-69: the direction sampled, the throughput and the next ray.
PathIndirect ==
    /\ pathPc = "indirect"
    /\ \E e1 \in E1Draws, e2 \in E2Draws :
        /\ throughput' =
                Let(bsdf_sample(si[1].material, si[1], e1, e2), LAMBDA wo :
                Let(bsdf_eval(si[1].material, si[1], wo), LAMBDA sample :
                    ColorMul(ColorScale(RDiv(R(1), sample.pdf), throughput),
                             sample.radiance)))
        /\ ray' =
                Let(bsdf_sample(si[1].material, si[1], e1, e2), LAMBDA wo :
                    Ray(VAdd(si[1].position, VScale(OriginEps, wo)), wo))
        /\ history' = Append(history, [step |-> "indirect", bounce |-> bounce,
                                       throughput |-> throughput', color |-> color])
    /\ pathPc' = "roulette"
    /\ UNCHANGED <<dispatchVars, sensorVars, shapes, found, hit, queried, lights, background_color,
                   max_bounce, russian_roulette, bounce, color, si, light, le>>

\* integrator.rs:71: `if bounce > self.russian_roulette`.
RouletteDueFrom(b, rr) == b >= rr

RouletteDue(b, rr) == b > rr

\* integrator.rs:71-78: the roulette, and the end of the loop's body.
PathRoulette ==
    /\ pathPc = "roulette"
    /\ IF RouletteDue(bounce, russian_roulette)
       THEN LET p == RMax(throughput[1], RMax(throughput[2], throughput[3]))
            IN  \E xi \in RouletteDraws :
                    IF RGt(xi, p)
                    THEN /\ pathPc' = "returned"
                         /\ UNCHANGED <<throughput, bounce>>
                         /\ history' = Append(history,
                                [step |-> "roulette", bounce |-> bounce, drawn |-> TRUE,
                                 xi |-> xi, p |-> p, before |-> throughput,
                                 throughput |-> throughput, color |-> color,
                                 break |-> TRUE])
                    ELSE /\ pathPc' = "loop"
                         /\ throughput' = ColorScale(RDiv(R(1), p), throughput)
                         /\ bounce' = bounce + 1
                         /\ history' = Append(history,
                                [step |-> "roulette", bounce |-> bounce, drawn |-> TRUE,
                                 xi |-> xi, p |-> p, before |-> throughput,
                                 throughput |-> throughput', color |-> color,
                                 break |-> FALSE])
       ELSE /\ pathPc' = "loop"
            /\ bounce' = bounce + 1
            /\ history' = Append(history,
                    [step |-> "roulette", bounce |-> bounce, drawn |-> FALSE,
                     xi |-> R(0), p |-> R(0), before |-> throughput,
                     throughput |-> throughput, color |-> color, break |-> FALSE])
            /\ UNCHANGED throughput
    /\ UNCHANGED <<dispatchVars, sensorVars, sceneVars, lights, background_color, max_bounce,
                   russian_roulette, color, si, light, le>>

PathNext ==
    \/ PathHit
    \/ PathExhausted
    \/ PathLight
    \/ PathDirect
    \/ PathIndirect
    \/ PathRoulette

SpecPath == PathInit /\ [][PathNext]_vars

\* sample_radiance is one call on one thread: once called it keeps taking
\* its next step.
SpecPathFair == SpecPath /\ WF_vars(PathNext)

(***************************************************************************)
(* Properties of sample_radiance.                                          *)
(***************************************************************************)
Steps(kind) == {n \in DOMAIN history : history[n].step = kind}

\* No shape of the scene is hit by r.
MissesAll(r) == \A k \in DOMAIN shapes : intersect(shapes[k], r) = None

\* The ray is still the primary ray and the loop has been entered.
AfterPrimary == history # <<>> /\ Steps("indirect") = {}

\* C8: when the primary ray misses every shape and max_bounce >= 1,
\* sample_radiance returns at once, and what it returns is exactly the
\* scene's background colour, whatever the lights and russian_roulette are.
C8_BackgroundOnMiss ==
    (AfterPrimary /\ MissesAll(ray) /\ max_bounce >= 1)
        => (pathPc = "returned" /\ color = background_color)

C8_Witness ==
    /\ AfterPrimary
    /\ MissesAll(ray)
    /\ max_bounce >= 1
    /\ shapes # <<>>
    /\ lights # <<>>
    /\ russian_roulette = 0
    /\ pathPc = "returned"
    /\ color = background_color
    /\ color # Black

\* Whether some shape of the scene is hit by the shadow ray from the point
\* at towards the light l: origin at.position + 1e-3 * wo, direction wo.
Occluded(at, l) ==
    LET wo == normalize(VSub(l.position, at.position))
        shadow == Ray(VAdd(at.position, VScale(OriginEps, wo)), wo)
    IN  \E k \in DOMAIN shapes : intersect(shapes[k], shadow) # None

\* What the light l is to add to color at the point at, under throughput t.
Contribution(t, at, l) ==
    LET wo == normalize(VSub(l.position, at.position))
    IN  IF Occluded(at, l) THEN Black
        ELSE ColorMul(t, ColorMul(bsdf_eval(at.material, at, wo).radiance, l.intensity))

RECURSIVE SumContributions(_, _, _)
SumContributions(t, at, n) ==
    IF n = 0 THEN Black
    ELSE ColorAdd(SumContributions(t, at, n - 1), Contribution(t, at, lights[n]))

\* The direct-lighting step has just ended.
AfterDirect == pathPc = "indirect"

\* The colour accumulated when the surface was hit, before the lights.
ColorAtHit == history[Len(history) - Len(lights) - 1].color

\* C9: the direct-lighting step at a hit adds to color, for each light,
\* nothing when the shadow ray towards it hits a shape of the scene, and
\* throughput * eval(si, wo).radiance * the light's radiance when it hits
\* none.
C9_ShadowedLightAddsNothing ==
    AfterDirect =>
        color = ColorAdd(ColorAtHit, SumContributions(throughput, si[1], Len(lights)))

C9_Witness ==
    /\ AfterDirect
    /\ \E n \in DOMAIN lights :
        /\ Occluded(si[1], lights[n])
        /\ bsdf_eval(si[1].material, si[1],
                     normalize(VSub(lights[n].position, si[1].position))).radiance # Black
    /\ \E n \in DOMAIN lights :
        /\ ~Occluded(si[1], lights[n])
        /\ Contribution(throughput, si[1], lights[n]) # Black
    /\ color # ColorAtHit

MaxChannel(c) == RMax(c[1], RMax(c[2], c[3]))

\* C10: the roulette draws at a bounce exactly when the bounce index is
\* greater than russian_roulette; a draw xi against q, the largest channel
\* of the throughput, ends the path with the colour accumulated so far when
\* xi > q and divides the throughput by q otherwise; without a draw the
\* throughput is kept and the path goes on.
C10_Roulette ==
    \A n \in Steps("roulette") :
        LET e == history[n]
        IN  /\ e.drawn <=> e.bounce > russian_roulette
            /\ e.drawn =>
                /\ e.p = MaxChannel(e.before)
                /\ e.break <=> RGt(e.xi, e.p)
                /\ ~e.break =>
                    e.throughput = <<RDiv(e.before[1], e.p), RDiv(e.before[2], e.p),
                                     RDiv(e.before[3], e.p)>>
            /\ ~e.drawn => (~e.break /\ e.throughput = e.before)
            /\ e.break =>
                /\ n = Len(history)
                /\ pathPc = "returned"
                /\ color = history[n - 1].color

C10_Witness ==
    /\ pathPc = "returned"
    /\ \E n \in Steps("roulette") : ~history[n].drawn /\ history[n].bounce = russian_roulette
    /\ \E n \in Steps("roulette") :
        /\ history[n].drawn
        /\ ~history[n].break
        /\ history[n].throughput # history[n].before
    /\ \E n \in Steps("roulette") :
        /\ history[n].drawn
        /\ history[n].break
        /\ history[n].bounce = russian_roulette + 2
        /\ color # Black

\* The closest-hit queries made for the path's own rays, one per iteration
\* of the loop.
Queries == Steps("hit") \cup Steps("escape")

\* C11: sample_radiance makes at most max_bounce closest-hit queries for
\* the path, one per bounce index in increasing order, and every call
\* returns.
C11_Terminates ==
    /\ [](/\ Cardinality(Queries) <= max_bounce
          /\ \A n \in Queries : history[n].bounce < max_bounce
          /\ \A m, n \in Queries : m < n => history[m].bounce < history[n].bounce)
    /\ <>(pathPc = "returned")

C11_Witness ==
    /\ pathPc = "returned"
    /\ max_bounce >= 3
    /\ Cardinality(Queries) = max_bounce
    /\ Steps("exhausted") # {}
    /\ \E n \in Steps("roulette") : history[n].drawn

(***************************************************************************)
(* sensor.rs: a sensor and its camera, called from outside as the tests    *)
(* of sensor.rs call them.                                                 *)
(***************************************************************************)
\* The colors Sensor::constant is called with, and those written later.
Fills == {Black, Color(Rat(3, 2), Rat(-1, 4), Rat(1, 2))}

Written == {Color(R(1), Rat(1, 255), Rat(127, 255)), Color(Rat(2, 3), R(4), Rat(509, 510))}

\* An access that would take the color out of the lock through a write
\* guard.
take(col) == [seen |-> col, held |-> Black]

\* sensor.rs:204, color.read().unwrap(): what the read guard shows and what
\* the lock holds once the guard is dropped.
read(col) == [seen |-> col, held |-> col]

\* sensor.rs:200-209: the bytes of every pixel in the vector's order.
RECURSIVE readout(_)
readout(colors) ==
    IF colors = <<>> THEN <<>>
    ELSE to_bytes(read(Head(colors)).seen) \o readout(Tail(colors))

\* sensor.rs:200-209: the colors the pixels hold when readout has returned.
AfterReadout(colors) == [p \in DOMAIN colors |-> read(colors[p]).held]

Call(op, i, j) == [op |-> op, i |-> i, j |-> j]

\* sensor.rs:159-176
SensorInit ==
    /\ width \in 1..MaxSensor
    /\ height \in 1..MaxSensor
    /\ width * height <= MaxSensor
    /\ \E fill \in Fills : pixels = [p \in 1..(width * height) |-> fill]
    /\ lock = [p \in 1..(width * height) |-> Free]
    /\ spp = 0
    /\ num_cores = 1
    /\ chunks = <<>>
    /\ mainPc = "off"
    /\ next = 0
    /\ wk = <<>>
    /\ bytes = <<>>
    /\ saved = "None"
    /\ estimates = [p \in 1..(width * height) |-> <<>>]
    /\ writes = [p \in 1..(width * height) |-> 0]
    /\ lockers = [p \in 1..(width * height) |-> {}]
    /\ SceneIdle
    /\ PathIdle
    /\ SensorIdle

SensorFrame ==
    UNCHANGED <<sceneVars, pathVars, width, height, spp, num_cores, lock, chunks, mainPc,
                next, wk, bytes, saved, estimates, writes, lockers>>

\* sensor.rs:228-233
SensorGet(i, j) ==
    /\ SensorIdle
    /\ asked' = Call("get", i, j)
    /\ answer' = get(width, height, pixels, i, j)
    /\ UNCHANGED pixels
    /\ SensorFrame

\* sensor.rs:221-226
SensorGetMut(i, j) ==
    /\ SensorIdle
    /\ asked' = Call("get_mut", i, j)
    /\ answer' = get_mut(width, height, pixels, i, j)
    /\ UNCHANGED pixels
    /\ SensorFrame

\* sensor.rs:221-226 and main.rs:171: a store through the pixel's lock.
SensorWrite(i, j, c) ==
    /\ SensorIdle
    /\ get_mut(width, height, pixels, i, j) # None
    /\ asked' = Call("write", i, j)
    /\ answer' = None
    /\ pixels' = [pixels EXCEPT ![j * width + i + 1] = c]
    /\ SensorFrame

\* sensor.rs:190-198
SensorClear ==
    /\ SensorIdle
    /\ asked' = Call("clear", 0, 0)
    /\ answer' = None
    /\ pixels' = [p \in DOMAIN pixels |-> Black]
    /\ SensorFrame

\* sensor.rs:200-209
SensorReadout ==
    /\ SensorIdle
    /\ asked' = Call("readout", 0, 0)
    /\ answer' = readout(pixels)
    /\ pixels' = AfterReadout(pixels)
    /\ SensorFrame

\* sensor.rs:211-219: the buffer handed to image::save_buffer with the
\* sensor's dimensions, and the ImageResult it returns.
SensorSave ==
    /\ SensorIdle
    /\ asked' = Call("save", 0, 0)
    /\ \E result \in {"Ok", "Err"} :
        answer' = <<[result |-> result, buffer |-> readout(pixels),
                     width |-> width, height |-> height]>>
    /\ pixels' = AfterReadout(pixels)
    /\ SensorFrame

\* sensor.rs:71-102
SensorSampleRay(i, j) ==
    /\ SensorIdle
    /\ asked' = Call("sample_ray", i, j)
    /\ \E jitter \in (IF inside(width, height, i, j) THEN JitterDraws(width, height, i, j)
                      ELSE {<<R(0), R(0)>>}) :
        answer' = sample_ray(width, height, i, j, jitter[1], jitter[2])
    /\ UNCHANGED pixels
    /\ SensorFrame

\* main.rs:163-167: what the worker's closure does with one sample, at any
\* position.
SensorSample(i, j) ==
    /\ SensorIdle
    /\ asked' = Call("sample", i, j)
    /\ \E jitter \in (IF inside(width, height, i, j) THEN JitterDraws(width, height, i, j)
                      ELSE {<<R(0), R(0)>>}),
          radiance \in Radiances :
        answer' = Sampled(width, height, i, j, jitter[1], jitter[2], radiance)
    /\ UNCHANGED pixels
    /\ SensorFrame

\* The caller is done with the value a call returned.
SensorReturn ==
    /\ ~SensorIdle
    /\ asked' = Call("none", 0, 0)
    /\ answer' = None
    /\ UNCHANGED pixels
    /\ SensorFrame

SensorNext ==
    \/ \E i \in 0..width, j \in 0..height : SensorGet(i, j)
    \/ \E i \in 0..width, j \in 0..height : SensorGetMut(i, j)
    \/ \E i \in 0..width, j \in 0..height, c \in Written : SensorWrite(i, j, c)
    \/ SensorClear
    \/ SensorReadout
    \/ SensorSave
    \/ \E i \in 0..width, j \in 0..height : SensorSampleRay(i, j)
    \/ \E i \in 0..width, j \in 0..height : SensorSample(i, j)
    \/ SensorReturn

SpecSensor == SensorInit /\ [][SensorNext]_vars

\* C12: Sensor::get and Sensor::get_mut return a pixel exactly when inside
\* says so, which is exactly when i < width and j < height; the pixel
\* returned is the one whose position is (i, j).
C12_GetIffInside ==
    /\ \A i \in 0..(width + 1), j \in 0..(height + 1) :
        /\ inside(width, height, i, j) <=> (i < width /\ j < height)
        /\ (get(width, height, pixels, i, j) # None) <=> inside(width, height, i, j)
        /\ (get_mut(width, height, pixels, i, j) # None) <=> inside(width, height, i, j)
    /\ asked.op \in {"get", "get_mut"} =>
        /\ (answer # None) <=> (asked.i < width /\ asked.j < height)
        /\ answer # None => answer[1].position = <<asked.i, asked.j>>

C12_Witness ==
    /\ asked.op = "get"
    /\ width >= 2
    /\ \/ asked.i = width - 1 /\ asked.j = height - 1 /\ answer # None
       \/ asked.i = width /\ asked.j = 0 /\ answer = None

\* C13: sample_ray returns no ray exactly for the positions outside the
\* sensor; a ray it returns starts at (0,0,0) and has a unit direction with
\* z < 0; and the worker's closure hands a radiance on exactly when there is
\* a ray, so that the integrator is not called for a position outside.
C13_NoRayIffOutside ==
    /\ asked.op = "sample_ray" =>
        /\ (answer = None) <=> ~(asked.i < width /\ asked.j < height)
        /\ answer # None =>
            /\ answer[1].origin = Vec(0, 0, 0)
            /\ RLt(answer[1].direction[3], R(0))
            /\ norm2(answer[1].direction) = R(1)
    /\ asked.op = "sample" =>
        /\ (answer = None) <=> ~(asked.i < width /\ asked.j < height)
        /\ answer # None => answer[1] \in Radiances

C13_Witness ==
    /\ asked.op = "sample_ray"
    /\ \/ asked.i = width /\ answer = None
       \/ /\ asked.i = width - 1
          /\ asked.j = height - 1
          /\ answer # None
          /\ answer[1].direction[1] # R(0)
          /\ answer[1].direction[2] # R(0)

\* sensor.rs:116-122, Color::clamp on one channel: f32::clamp(x, 0.0, 1.0).
clamp01(x) == IF RLt(x, R(0)) THEN R(0) ELSE IF RLt(R(1), x) THEN R(1) ELSE x

\* The integer part of a rational that is not negative.
Truncated(x) == x[1] \div x[2]

\* The channels of the colors the sensor holds.
Channels == {pixels[p][c] : p \in 1..Len(pixels), c \in 1..3}

\* C14: the byte of a channel c is clamp01(c) * 255 truncated: 0 for c <= 0,
\* 255 for c >= 1, floor(c * 255) between, and always within 0..255; the
\* bytes readout returns are these.
C14_Quantization ==
    /\ \A x \in Channels :
        /\ ToByte(x) = Truncated(RMul(clamp01(x), R(255)))
        /\ ToByte(x) \in 0..255
        /\ RLe(x, R(0)) => ToByte(x) = 0
        /\ RLe(R(1), x) => ToByte(x) = 255
        /\ (RLt(R(0), x) /\ RLt(x, R(1))) =>
            /\ RLe(R(ToByte(x)), RMul(x, R(255)))
            /\ RLt(RMul(x, R(255)), R(ToByte(x) + 1))
    /\ asked.op = "readout" =>
        \A k \in 1..Len(answer) :
            /\ answer[k] \in 0..255
            /\ answer[k] = Truncated(RMul(clamp01(pixels[((k - 1) \div 3) + 1][((k - 1) % 3) + 1]),
                                          R(255)))

C14_Witness ==
    /\ asked.op = "readout"
    /\ \E x \in Channels : RLt(x, R(0)) /\ ToByte(x) = 0
    /\ \E x \in Channels : RLt(R(1), x) /\ ToByte(x) = 255
    /\ \E x \in Channels : RLt(R(0), x) /\ RLt(x, R(1)) /\ ToByte(x) \in 1..254
    /\ \E k \in 1..Len(answer) : answer[k] = 170

\* The color held by the pixel whose position field is (i, j).
ColorAt(i, j) ==
    LET px == Pixels(width, height, pixels)
    IN  px[CHOOSE k \in DOMAIN px : px[k].position = <<i, j>>].color

\* C15: readout returns 3 * width * height bytes, and the three bytes from
\* offset 3 * (j * width + i) on are the quantized red, green and blue of the
\* pixel whose position is (i, j), which is the pixel get(i, j) returns.
C15_ReadoutLayout ==
    asked.op = "readout" =>
        /\ Len(answer) = 3 * width * height
        /\ \A i \in 0..(width - 1), j \in 0..(height - 1) :
            /\ \E k \in 1..(width * height) :
                   Pixels(width, height, pixels)[k].position = <<i, j>>
            /\ \A c \in 0..2 :
                   answer[3 * (j * width + i) + c + 1] = ToByte(ColorAt(i, j)[c + 1])
            /\ get(width, height, pixels, i, j) =
                   Some([position |-> <<i, j>>, color |-> ColorAt(i, j)])

C15_Witness ==
    /\ asked.op = "readout"
    /\ width = 2
    /\ height = 2
    /\ Len(answer) = 12
    /\ to_bytes(ColorAt(1, 0)) # to_bytes(ColorAt(0, 1))
    /\ to_bytes(ColorAt(1, 1)) # to_bytes(ColorAt(0, 0))

\* C16: save and readout leave the sensor as it was (its pixels' colors, its
\* width and height), whether the sink succeeds or fails; save returns one
\* result, Ok or Err, and after either of them save can be called again.
C16_SaveLeavesSensor ==
    /\ [][asked'.op \in {"save", "readout"} =>
            /\ asked.op = "none"
            /\ pixels' = pixels
            /\ width' = width
            /\ height' = height
            /\ lock' = lock]_vars
    /\ [](asked.op = "save" =>
            /\ Len(answer) = 1
            /\ answer[1].result \in {"Ok", "Err"}
            /\ answer[1].buffer = readout(pixels)
            /\ ENABLED SensorReturn)
    /\ [](SensorIdle => ENABLED SensorSave)

C16_Witness ==
    /\ asked.op = "save"
    /\ answer[1].result = "Err"
    /\ \E p \in 1..Len(pixels) : pixels[p] \in Written
    /\ \E p \in 1..Len(pixels) : pixels[p] \in Fills \ {Black}

\* The spheres of the scene.
Spheres == {k \in DOMAIN shapes : shapes[k].kind = "sphere"}

\* u . (o - c) for the ray and the sphere of index k.
HalfB(k) == dot(VScale(RInv(RSqrt(norm2(ray.direction))), ray.direction),
                VSub(ray.origin, shapes[k].center))

\* delta = (u . (o - c))^2 - (|o - c|^2 - r^2) for the sphere of index k.
Delta(k) ==
    RSub(RMul(HalfB(k), HalfB(k)),
         RSub(norm2(VSub(ray.origin, shapes[k].center)),
              RMul(shapes[k].radius, shapes[k].radius)))

\* C17: Sphere::intersect misses when delta is negative; when it hits,
\* delta is not negative, t is the nearer root -u.(o-c) - sqrt(delta) and is
\* not negative, position = o + t*u is at the distance radius from center,
\* normal = (position - center)/radius has length 1 and wi = -u; the sphere
\* of center (0,5,0) and radius 3 is hit at (0,2,0) from (0,-1,0) along +y
\* and missed along +x.
C17_SphereClosedForm ==
    queried =>
        \A k \in Spheres :
            /\ RLt(Delta(k), R(0)) => found[k] = None
            /\ found[k] # None =>
                LET si0 == found[k][1]
                    u == VScale(RInv(RSqrt(norm2(ray.direction))), ray.direction)
                IN  /\ RLe(R(0), Delta(k))
                    /\ RLe(RAdd(si0.t, HalfB(k)), R(0))
                    /\ RMul(RAdd(si0.t, HalfB(k)), RAdd(si0.t, HalfB(k))) = Delta(k)
                    /\ RLe(R(0), si0.t)
                    /\ si0.position = VAdd(ray.origin, VScale(si0.t, u))
                    /\ norm2(VSub(si0.position, shapes[k].center)) =
                           RMul(shapes[k].radius, shapes[k].radius)
                    /\ si0.normal = VScale(RInv(shapes[k].radius),
                                           VSub(si0.position, shapes[k].center))
                    /\ norm2(si0.normal) = R(1)
                    /\ si0.wi = VNeg(u)
            /\ (shapes[k].center = Vec(0, 5, 0) /\ shapes[k].radius = R(3)
                    /\ ray.origin = Vec(0, -1, 0)) =>
                /\ ray.direction = Vec(0, 1, 0) =>
                       found[k] # None /\ found[k][1].position = Vec(0, 2, 0)
                /\ ray.direction = Vec(1, 0, 0) => found[k] = None

C17_Witness ==
    /\ queried
    /\ ray = Ray(Vec(0, -1, 0), Vec(0, 1, 0))
    /\ \E k \in Spheres :
        /\ shapes[k].center = Vec(0, 5, 0)
        /\ RLt(R(0), Delta(k))
        /\ found[k] # None
        /\ found[k][1].position = Vec(0, 2, 0)
        /\ found[k][1].t = R(3)

\* The throughput with which the bounce of index k is entered: white at the
\* first, and afterwards what the roulette step of bounce k - 1 left.
Entering(k) ==
    IF k = 0 THEN White
    ELSE history[CHOOSE n \in Steps("roulette") : history[n].bounce = k - 1].throughput

\* The step that follows the step of index n is one the loop's body allows.
InOrder(n) ==
    LET a == history[n]
        b == history[n + 1]
    IN  /\ a.step = "hit" =>
            b.bounce = a.bounce /\ b.step = (IF lights = <<>> THEN "direct" ELSE "light")
        /\ a.step = "light" => b.bounce = a.bounce /\ b.step \in {"light", "direct"}
        /\ a.step = "direct" => b.bounce = a.bounce /\ b.step = "indirect"
        /\ a.step = "indirect" => b.bounce = a.bounce /\ b.step = "roulette"
        /\ a.step = "roulette" =>
            /\ ~a.break
            /\ b.bounce = a.bounce + 1
            /\ b.step \in {"hit", "escape", "exhausted"}
        /\ a.step \notin {"escape", "exhausted"}

\* C18: in one bounce the steps are closest-hit, direct lighting (every light,
\* then the addition to color), the throughput's update with the next ray,
\* and the roulette, in this order; the direct term added at bounce k is
\* le times the throughput left by bounces 0..k-1 (white at the first hit),
\* and the update and the roulette of bounce k leave color as it is.
C18_StepOrder ==
    /\ \A n \in 1..(Len(history) - 1) : InOrder(n)
    /\ history # <<>> =>
        history[1].bounce = 0 /\ history[1].step \in {"hit", "escape", "exhausted"}
    /\ \A n \in Steps("direct") :
        /\ n > Len(lights) + 1
        /\ history[n - Len(lights) - 1].step = "hit"
        /\ history[n].throughput = Entering(history[n].bounce)
    /\ \A n \in Steps("indirect") \cup Steps("roulette") :
        history[n].color = history[n - 1].color
    /\ \A n \in Steps("roulette") : history[n].before = history[n - 1].throughput
    /\ AfterDirect =>
        /\ history[Len(history)].step = "direct"
        /\ color = ColorAdd(ColorAtHit, ColorMul(Entering(bounce), le))
    /\ pathPc = "roulette" =>
        /\ history[Len(history)].step = "indirect"
        /\ ray.origin = VAdd(si[1].position, VScale(OriginEps, ray.direction))

C18_Witness ==
    /\ AfterDirect
    /\ bounce >= 2
    /\ Entering(bounce) # White
    /\ Entering(bounce) # Entering(bounce - 1)
    /\ le # Black
    /\ ColorMul(Entering(bounce), le) # le
    /\ color # ColorAtHit

\* The roulette steps at which a number was drawn.
Drawn == {n \in Steps("roulette") : history[n].drawn}

\* C19: when russian_roulette >= max_bounce - 2 the roulette draws only at
\* the last bounce index, max_bounce - 1, after every addition to color:
\* whether the draw ends the path or rescales the throughput, the next
\* thing is the return, of the color held when the number was drawn.
C19_RouletteCannotChangeColor ==
    russian_roulette >= max_bounce - 2 =>
        \A n \in Drawn :
            /\ history[n].bounce = max_bounce - 1
            /\ history[n].color = history[n - 1].color
            /\ history[n].break => n = Len(history) /\ pathPc = "returned"
            /\ ~history[n].break =>
                /\ pathPc \in {"loop", "returned"}
                /\ bounce = max_bounce
                /\ pathPc = "loop" => n = Len(history)
                /\ pathPc = "returned" =>
                    n + 1 = Len(history) /\ history[n + 1].step = "exhausted"
            /\ color = history[n].color

C19_Witness ==
    /\ max_bounce = 4
    /\ russian_roulette = 2
    /\ pathPc = "returned"
    /\ color # Black
    /\ \E n \in Drawn :
        /\ ~history[n].break
        /\ history[n].throughput # history[n].before

\* C20: with spp = 0 no worker ever has a radiance, takes a pixel's lock or
\* stores into a pixel: every pixel is never written and holds the black of
\* Sensor::zero to the end, and the bytes read out are those of black.
C20_NoSamplesNoWrite ==
    spp = 0 =>
        /\ \A p \in 1..NPixels :
            /\ writes[p] = 0
            /\ lockers[p] = {}
            /\ lock[p] = Free
            /\ estimates[p] = <<>>
            /\ pixels[p] = Black
        /\ \A w \in DOMAIN wk : wk[w].accum = <<>> /\ wk[w].pc \notin {"lock", "store"}
        /\ \A b \in 1..Len(bytes) : bytes[b] = 0

C20_Witness ==
    /\ spp = 0
    /\ mainPc = "done"
    /\ NPixels = MaxPixels
    /\ Len(chunks) > 1
    /\ \A w \in DOMAIN wk : wk[w].pc = "done"
    /\ Len(bytes) = 3 * NPixels

====
